---- MODULE Spec2Model ----
(***************************************************************************)
(* The cookbook of backend/ts_template/devdonalds.ts: the POST /entry      *)
(* handler (AddEntry), its cycle guard isReachable, and the GET /summary   *)
(* handler (Summarize).  A JavaScript Map is modelled as the sequence of   *)
(* its key/value pairs in insertion order, except the cookbook itself,     *)
(* whose iteration order the code never uses: it is a function from the    *)
(* names it holds to their entries.                                        *)
(***************************************************************************)
EXTENDS Integers, Sequences, FiniteSets, TLC

VARIABLES cookbook, before, request, response

vars == <<cookbook, before, request, response>>

(***************************************************************************)
(* Bounds of the model.                                                    *)
(***************************************************************************)
MaxQty == 2

MaxCost == 1

MaxReq == 2

MaxSteps == 40

Names == {"R", "A", "B", "L"}

CoreNames == {"A", "B", "L"}

Rank(n) == CASE n = "R" -> 4 [] n = "A" -> 3 [] n = "B" -> 2 [] OTHER -> 1

(***************************************************************************)
(* Small helpers.                                                          *)
(***************************************************************************)
SeqsUpTo(S, n) == UNION {[1..k -> S] : k \in 0..n}

(***************************************************************************)
(* Map<string, V> as a sequence of [key, value] pairs in insertion order.  *)
(***************************************************************************)
MapHas(m, k) == \E i \in 1..Len(m) : m[i].key = k

MapGet(m, k) == m[CHOOSE i \in 1..Len(m) : m[i].key = k].value

\* A faulty variant: an array push instead of Map.set, so that a key set
\* twice is held twice.
MapSetAppend(m, k, v) == Append(m, [key |-> k, value |-> v])

\* Map.set: an existing key keeps its position and takes the new value; a new
\* key is appended.
MapSet(m, k, v) ==
  IF MapHas(m, k)
  THEN [i \in 1..Len(m) |-> IF m[i].key = k THEN [key |-> k, value |-> v] ELSE m[i]]
  ELSE Append(m, [key |-> k, value |-> v])

MapDelete(m, k) == SelectSeq(m, LAMBDA p : p.key # k)

MapValues(m) == [i \in 1..Len(m) |-> m[i].value]

\* ingredients.get(k) || d : an absent key and a stored 0 both give d.
MapGetOr(m, k, d) == IF MapHas(m, k) /\ MapGet(m, k) # 0 THEN MapGet(m, k) ELSE d

(***************************************************************************)
(* The cookbook.                                                           *)
(***************************************************************************)
EmptyCookbook == [n \in {} |-> [type |-> "none"]]

Has(cb, n) == n \in DOMAIN cb

CookbookSet(cb, n, e) == [x \in (DOMAIN cb) \cup {n} |-> IF x = n THEN e ELSE cb[x]]

IsRecipe(cb, n) == Has(cb, n) /\ cb[n].type = "recipe"

IsIngredient(cb, n) == Has(cb, n) /\ cb[n].type = "ingredient"

(***************************************************************************)
(* isReachable(src, dest): a stack of recipes, no visited set.  The result *)
(* is [done, value]; done is FALSE when MaxSteps iterations of the while   *)
(* loop did not empty the stack (the loop of the code would go on).        *)
(***************************************************************************)
\* A faulty variant: the requirements that are recipes are not pushed, so
\* only the direct requirements of src are examined.
ReachItemsDirectOnly(cb, items, i, stack, dest) ==
  [found |-> \E j \in i..Len(items) : items[j].name = dest, stack |-> stack]

\* A faulty variant: the for loop is left after its first item.
ReachItemsFirstOnly(cb, items, i, stack, dest) ==
  IF i > Len(items) THEN [found |-> FALSE, stack |-> stack]
  ELSE IF items[i].name = dest THEN [found |-> TRUE, stack |-> stack]
  ELSE [found |-> FALSE,
        stack |-> IF IsRecipe(cb, items[i].name)
                  THEN Append(stack, cb[items[i].name]) ELSE stack]

\* The for loop over currentItem.requiredItems, from item i on.
RECURSIVE ReachItems(_, _, _, _, _)
ReachItems(cb, items, i, stack, dest) ==
  IF i > Len(items) THEN [found |-> FALSE, stack |-> stack]
  ELSE IF items[i].name = dest THEN [found |-> TRUE, stack |-> stack]
  ELSE ReachItems(cb, items, i + 1,
                  IF IsRecipe(cb, items[i].name)
                  THEN Append(stack, cb[items[i].name]) ELSE stack,
                  dest)

RECURSIVE ReachLoop(_, _, _, _)
ReachLoop(cb, stack, dest, fuel) ==
  IF Len(stack) = 0 THEN [done |-> TRUE, value |-> FALSE]
  ELSE IF fuel = 0 THEN [done |-> FALSE, value |-> FALSE]
  ELSE LET currentItem == stack[Len(stack)]
           r == ReachItems(cb, currentItem.requiredItems, 1,
                          SubSeq(stack, 1, Len(stack) - 1), dest)
       IN IF r.found THEN [done |-> TRUE, value |-> TRUE]
          ELSE ReachLoop(cb, r.stack, dest, fuel - 1)

isReachable(cb, src, dest) ==
  IF cb[src].type = "ingredient" THEN [done |-> TRUE, value |-> FALSE]
  ELSE ReachLoop(cb, <<cb[src]>>, dest, MaxSteps)

(***************************************************************************)
(* POST /entry.                                                            *)
(***************************************************************************)
Reply(status, error, cb) ==
  [status |-> status, error |-> error, cookbook |-> cb]

\* A faulty variant: the entry is stored although the answer is 400.
RejectButStore(error, cb, data) ==
  Reply(400, error,
        CookbookSet(cb, data.name,
                    [name |-> data.name, type |-> "recipe",
                     requiredItems |-> data.requiredItems]))

\* A 400 answer: the handler returns before any cookbook.set.
Fail(error, cb, data) == Reply(400, error, cb)

\* A faulty variant: the uniqueness check is left out.
NameNeverTaken(cb, entryName) == FALSE

\* cookbook.has(entryName) of the name check.
NameTaken(cb, entryName) == Has(cb, entryName)

\* A faulty variant: the self-reference test is left out.
NeverSelfListed(requiredItemName, entryName) == FALSE

\* requiredItemName === entryName of the per-item name check.
SelfListed(requiredItemName, entryName) == requiredItemName = entryName

\* The for loop over requiredItems, from item i on, with requiredItemsMap.
RECURSIVE CheckItems(_, _, _, _)
CheckItems(cb, data, i, requiredItemsMap) ==
  IF i > Len(data.requiredItems)
  THEN Reply(200, "",
             CookbookSet(cb, data.name,
                         [name |-> data.name, type |-> "recipe",
                          requiredItems |-> MapValues(requiredItemsMap)]))
  ELSE LET requiredItem == data.requiredItems[i]
           reach == IF Has(cb, requiredItem.name)
                    THEN isReachable(cb, requiredItem.name, data.name)
                    ELSE [done |-> TRUE, value |-> FALSE]
       IN IF SelfListed(requiredItem.name, data.name)
          THEN Fail("SelfReference", cb, data)
          ELSE IF ~reach.done THEN Reply(0, "NoResponse", cb)
          ELSE IF reach.value THEN Fail("CycleDetected", cb, data)
          ELSE IF requiredItem.quantity <= 0 THEN Fail("BadQuantity", cb, data)
          ELSE CheckItems(cb, data, i + 1,
                          MapSet(requiredItemsMap, requiredItem.name,
                                 [name |-> requiredItem.name,
                                  quantity |-> requiredItem.quantity]))

EntryOutcome(cb, data) ==
  IF data.type \notin {"recipe", "ingredient"} THEN Fail("BadType", cb, data)
  ELSE IF NameTaken(cb, data.name) THEN Fail("DuplicateName", cb, data)
  ELSE IF data.type = "ingredient"
  THEN IF data.cookTime < 0 THEN Fail("BadCookTime", cb, data)
       ELSE Reply(200, "",
                  CookbookSet(cb, data.name,
                              [name |-> data.name, type |-> "ingredient",
                               cookTime |-> data.cookTime]))
  ELSE IF Len(data.requiredItems) = 0 THEN Fail("EmptyRequiredItems", cb, data)
  ELSE CheckItems(cb, data, 1, <<>>)

(***************************************************************************)
(* GET /summary.  The outcome carries steps, the number of iterations of   *)
(* the while loop that ran, and fallbacks, the number of those iterations  *)
(* that took a recipe off the stack while the ingredients counter held no  *)
(* entry for it, so that ingredients.get(recipeName) || 1 gave the 1.      *)
(***************************************************************************)
Answer(status, error, cookTime, ingredients, steps, fallbacks) ==
  [status |-> status, error |-> error, cookTime |-> cookTime,
   ingredients |-> ingredients, steps |-> steps, fallbacks |-> fallbacks]

\* A faulty variant: the new contribution overwrites the running total.
Overwrite(existingQuantity, quantity, multiplier) == quantity * multiplier

\* existingQuantity + requiredItem.quantity * (ingredients.get(recipeName) || 1)
Accumulate(existingQuantity, quantity, multiplier) ==
  existingQuantity + quantity * multiplier

\* A faulty variant: an absent required item is pushed like any other.
NeverMissing(cb, requiredItemName) == FALSE

\* !cookbook.has(requiredItemName) inside the for loop.
Missing(cb, requiredItemName) == ~Has(cb, requiredItemName)

\* The for loop over recipe.requiredItems, from item i on.
RECURSIVE SummaryItems(_, _, _, _, _, _)
SummaryItems(cb, recipeName, items, i, recipes, ingredients) ==
  IF i > Len(items)
  THEN [ok |-> TRUE, recipes |-> recipes, ingredients |-> ingredients]
  ELSE LET requiredItemName == items[i].name
           existingQuantity == MapGetOr(ingredients, requiredItemName, 0)
       IN IF Missing(cb, requiredItemName)
          THEN [ok |-> FALSE, recipes |-> recipes, ingredients |-> ingredients]
          ELSE SummaryItems(cb, recipeName, items, i + 1,
                            Append(recipes, requiredItemName),
                            MapSet(ingredients, requiredItemName,
                                   Accumulate(existingQuantity, items[i].quantity,
                                              MapGetOr(ingredients, recipeName, 1))))

\* The while loop over the recipes stack.
RECURSIVE SummaryLoop(_, _, _, _)
SummaryLoop(cb, recipes, ingredients, steps) ==
  IF Len(recipes) = 0
  THEN [status |-> 200, error |-> "", ingredients |-> ingredients, steps |-> steps,
        fallbacks |-> 0]
  ELSE IF steps = MaxSteps
  THEN [status |-> 0, error |-> "NoResponse", ingredients |-> ingredients,
        steps |-> steps, fallbacks |-> 0]
  ELSE LET recipeName == recipes[Len(recipes)]
           rest == SubSeq(recipes, 1, Len(recipes) - 1)
       IN IF ~Has(cb, recipeName)
          THEN [status |-> 400, error |-> "RecipeNotFound",
                ingredients |-> ingredients, steps |-> steps + 1, fallbacks |-> 0]
          ELSE IF cb[recipeName].type = "ingredient"
          THEN SummaryLoop(cb, rest, ingredients, steps + 1)
          ELSE LET r == SummaryItems(cb, recipeName, cb[recipeName].requiredItems,
                                     1, rest, ingredients)
                   fallback == IF MapHas(ingredients, recipeName) THEN 0 ELSE 1
               IN IF ~r.ok
                  THEN [status |-> 400, error |-> "DanglingReference",
                        ingredients |-> r.ingredients, steps |-> steps + 1,
                        fallbacks |-> fallback]
                  ELSE LET w == SummaryLoop(cb, r.recipes,
                                            MapDelete(r.ingredients, recipeName),
                                            steps + 1)
                       IN [w EXCEPT !.fallbacks = @ + fallback]

\* A faulty variant: the comparison of the type is inverted.
ListsNonIngredient(cb, ingredientName) ==
  Has(cb, ingredientName) /\ cb[ingredientName].type # "ingredient"

\* ingredient && ingredient.type === "ingredient" of the summary preparation.
ListsAsIngredient(cb, ingredientName) == IsIngredient(cb, ingredientName)

\* A faulty variant: the quantity is left out of the cook time.
LineTimeOfOne(ingredientQuantity, cookTime) == cookTime

\* ingredientQuantity * ingredient.cookTime
LineTime(ingredientQuantity, cookTime) == ingredientQuantity * cookTime

\* The for loop over ingredients.entries(), from entry i on.
RECURSIVE Prepare(_, _, _, _, _)
Prepare(cb, ingredients, i, cookTime, summaryIngredients) ==
  IF i > Len(ingredients)
  THEN [cookTime |-> cookTime, ingredients |-> summaryIngredients]
  ELSE IF ListsAsIngredient(cb, ingredients[i].key)
  THEN Prepare(cb, ingredients, i + 1,
               cookTime + LineTime(ingredients[i].value,
                                   IF IsIngredient(cb, ingredients[i].key)
                                   THEN cb[ingredients[i].key].cookTime ELSE 0),
               Append(summaryIngredients,
                      [name |-> ingredients[i].key, quantity |-> ingredients[i].value]))
  ELSE Prepare(cb, ingredients, i + 1, cookTime, summaryIngredients)

\* A faulty variant: the type of the named entry is not checked.
AnyEntryIsRecipe(cb, name) == TRUE

\* item.type !== "recipe", negated.
NamesRecipe(cb, name) == cb[name].type = "recipe"

SummaryOutcome(cb, name) ==
  IF ~Has(cb, name) THEN Answer(400, "NotFound", 0, <<>>, 0, 0)
  ELSE IF ~NamesRecipe(cb, name) THEN Answer(400, "NotARecipe", 0, <<>>, 0, 0)
  ELSE LET w == SummaryLoop(cb, <<name>>, <<[key |-> name, value |-> 1]>>, 0)
           s == Prepare(cb, w.ingredients, 1, 0, <<>>)
       IN IF w.status = 200
          THEN Answer(200, "", s.cookTime, s.ingredients, w.steps, w.fallbacks)
          ELSE Answer(w.status, w.error, 0, <<>>, w.steps, w.fallbacks)

(***************************************************************************)
(* The state machine: each request is handled to its response before the   *)
(* next one is taken (handlers are synchronous): a request is taken when   *)
(* the server is Idle.  request and response hold the request being        *)
(* answered and its answer until Finish hands the answer out; before is    *)
(* the cookbook the request found.                                         *)
(***************************************************************************)
\* The quantities of the general request bodies: the refused 0, the least
\* accepted quantity and the greatest one of the model.
Quantities == {0, 1, MaxQty}

CookTimes == (-1)..MaxCost

Items(names, quantities) == [name : names, quantity : quantities]

NoRequest == [op |-> "none", type |-> "", name |-> "", cookTime |-> 0,
              requiredItems |-> <<>>]

NoResponse == Answer(0, "", 0, <<>>, 0, 0)

Init ==
  /\ cookbook = EmptyCookbook
  /\ before = EmptyCookbook
  /\ request = NoRequest
  /\ response = NoResponse

\* No request is being answered.
Idle == request.op = "none"

AddEntry(data) ==
  LET o == EntryOutcome(cookbook, data)
  IN /\ cookbook' = o.cookbook
     /\ before' = cookbook
     /\ request' = [op |-> "entry", type |-> data.type, name |-> data.name,
                    cookTime |-> data.cookTime, requiredItems |-> data.requiredItems]
     /\ response' = Answer(o.status, o.error, 0, <<>>, 0, 0)

\* A faulty variant: line 220 deletes from the cookbook instead of from the
\* ingredients counter, so the summarized recipe is gone afterwards.
SummarizeAndDrop(name) ==
  /\ cookbook' = [n \in (DOMAIN cookbook) \ {name} |-> cookbook[n]]
  /\ before' = cookbook
  /\ request' = [op |-> "summary", type |-> "", name |-> name, cookTime |-> 0,
                 requiredItems |-> <<>>]
  /\ response' = SummaryOutcome(cookbook, name)

Summarize(name) ==
  /\ cookbook' = cookbook
  /\ before' = cookbook
  /\ request' = [op |-> "summary", type |-> "", name |-> name, cookTime |-> 0,
                 requiredItems |-> <<>>]
  /\ response' = SummaryOutcome(cookbook, name)

\* res.send / res.json has returned: the server waits for the next request.
Finish ==
  /\ ~Idle
  /\ request' = NoRequest
  /\ response' = NoResponse
  /\ before' = cookbook
  /\ UNCHANGED cookbook

\* The request bodies of the general specification: three names, every list
\* of up to MaxReq items over them (self references, repeated names, zero
\* quantities and the empty list included), a negative cook time, and a type
\* that is neither "recipe" nor "ingredient".
AddIngredient ==
  /\ Idle
  /\ \E n \in CoreNames, c \in CookTimes :
       AddEntry([type |-> "ingredient", name |-> n, cookTime |-> c,
                 requiredItems |-> <<>>])

AddRecipe ==
  /\ Idle
  /\ \E n \in CoreNames, l \in SeqsUpTo(Items(CoreNames, Quantities), MaxReq) :
       AddEntry([type |-> "recipe", name |-> n, cookTime |-> 0, requiredItems |-> l])

AddOther ==
  /\ Idle
  /\ \E n \in CoreNames :
       AddEntry([type |-> "other", name |-> n, cookTime |-> 0, requiredItems |-> <<>>])

GetSummary == Idle /\ \E n \in CoreNames : Summarize(n)

Next == AddIngredient \/ AddRecipe \/ AddOther \/ GetSummary \/ Finish

Spec == Init /\ [][Next]_vars

\* The request bodies of the layered specification: four names, and a recipe
\* requires one or two names of a lower rank, each once, with positive
\* quantities.  Every acyclic cookbook whose recipes have at most two
\* requirements is one of these up to a renaming.
LowerNames(n) == {m \in Names : Rank(m) < Rank(n)}

LayeredLists(n) ==
  LET I == Items(LowerNames(n), 1..MaxQty)
  IN {<<x>> : x \in I} \cup {<<p[1], p[2]>> : p \in {q \in I \X I : q[1].name # q[2].name}}

AddLayeredIngredient ==
  /\ Idle
  /\ \E n \in Names, c \in 0..MaxCost :
       AddEntry([type |-> "ingredient", name |-> n, cookTime |-> c,
                 requiredItems |-> <<>>])

AddLayeredRecipe ==
  /\ Idle
  /\ \E n \in Names : \E l \in LayeredLists(n) :
       AddEntry([type |-> "recipe", name |-> n, cookTime |-> 0, requiredItems |-> l])

GetLayeredSummary == Idle /\ \E n \in Names : Summarize(n)

NextLayered ==
  AddLayeredIngredient \/ AddLayeredRecipe \/ GetLayeredSummary \/ Finish

SpecLayered == Init /\ [][NextLayered]_vars

(***************************************************************************)
(* The requirement graph, independently of the traversals of the code.     *)
(***************************************************************************)
Requires(cb, n) ==
  IF IsRecipe(cb, n) THEN {cb[n].requiredItems[i].name : i \in DOMAIN cb[n].requiredItems}
  ELSE {}

RECURSIVE Closure(_, _)
Closure(cb, S) ==
  LET T == S \cup UNION {Requires(cb, n) : n \in S}
  IN IF T = S THEN S ELSE Closure(cb, T)

\* The names a path of at least one edge leads to from n.
Descendants(cb, n) == Closure(cb, Requires(cb, n))

Acyclic(cb) == \A n \in DOMAIN cb : n \notin Descendants(cb, n)

Answered(op) == request.op = op

\* A recipe body as the caller is to hand it over: a non-empty list, positive
\* quantities, no self reference.
WellFormed(name, requiredItems) ==
  /\ Len(requiredItems) > 0
  /\ \A i \in DOMAIN requiredItems :
       requiredItems[i].quantity > 0 /\ requiredItems[i].name # name

NewRecipe ==
  /\ Answered("entry")
  /\ request.type = "recipe"
  /\ request.name \notin DOMAIN before
  /\ WellFormed(request.name, request.requiredItems)

ClosesCycle ==
  \E i \in DOMAIN request.requiredItems :
    /\ request.requiredItems[i].name \in DOMAIN before
    /\ request.name \in Descendants(before, request.requiredItems[i].name)

\* C1: whatever entries were offered, in whatever order, the graph with an
\* edge from every stored recipe to each name it requires has no cycle.
C1_Acyclic == Acyclic(cookbook)

\* An insertion was refused because a required recipe reaches the new name
\* only through another stored recipe, by a reference that was forward when
\* it was stored.
C1_Witness ==
  /\ NewRecipe
  /\ response.error = "CycleDetected"
  /\ ClosesCycle
  /\ \A i \in DOMAIN request.requiredItems :
       request.name \notin Requires(before, request.requiredItems[i].name)
  /\ Cardinality({n \in DOMAIN cookbook : IsRecipe(cookbook, n)}) >= 2

\* C3: a well-formed recipe under a new name is refused with CycleDetected
\* exactly when a required name that is already stored reaches the new name
\* along the stored requirement edges; otherwise it is accepted, absent
\* required names included.
C3_CycleIff ==
  NewRecipe =>
    /\ (response.error = "CycleDetected") <=> ClosesCycle
    /\ ~ClosesCycle => response.status = 200 /\ request.name \in DOMAIN cookbook
    /\ ClosesCycle => response.status = 400

\* Recipe X requiring the absent Y is stored, and recipe Y requiring X is
\* then refused.
C3_Witness ==
  /\ NewRecipe
  /\ response.error = "CycleDetected"
  /\ \E x \in DOMAIN before :
       /\ IsRecipe(before, x)
       /\ request.name \in Requires(before, x)
       /\ \E i \in DOMAIN request.requiredItems : request.requiredItems[i].name = x
  /\ \E j \in DOMAIN request.requiredItems :
       request.requiredItems[j].name \notin DOMAIN before

\* C4: a request answered with a failure leaves the cookbook as it found it.
C4_FailureKeepsCookbook ==
  (~Answered("none") /\ response.status # 200) => cookbook = before

\* A recipe is refused at its second requirement after its first one passed
\* every check.
C4_Witness ==
  /\ Answered("entry")
  /\ request.type = "recipe"
  /\ Len(request.requiredItems) = 2
  /\ response.error \in {"CycleDetected", "SelfReference"}
  /\ request.requiredItems[1].quantity > 0
  /\ request.requiredItems[1].name # request.name
  /\ request.requiredItems[1].name \in DOMAIN before
  /\ request.name \notin Descendants(before, request.requiredItems[1].name)
  /\ cookbook = before

\* C5: an entry of either type under a name the cookbook holds is refused
\* with DuplicateName and the stored entry stays.
C5_Duplicate ==
  (/\ Answered("entry")
   /\ request.type \in {"recipe", "ingredient"}
   /\ request.name \in DOMAIN before) =>
    /\ response.status = 400
    /\ response.error = "DuplicateName"
    /\ request.name \in DOMAIN cookbook
    /\ cookbook[request.name] = before[request.name]

\* An ingredient is offered under the name of a stored recipe.
C5_Witness ==
  /\ Answered("entry")
  /\ request.type = "ingredient"
  /\ request.cookTime >= 0
  /\ IsRecipe(before, request.name)
  /\ response.error = "DuplicateName"

(***************************************************************************)
(* The quantity of l one unit of n stands for: the sum, over the paths     *)
(* from n to l, of the product of the quantities along the path.           *)
(***************************************************************************)
RECURSIVE PathQuantity(_, _, _)
RECURSIVE PathSum(_, _, _, _)
PathSum(cb, items, i, l) ==
  IF i > Len(items) THEN 0
  ELSE items[i].quantity * PathQuantity(cb, items[i].name, l)
       + PathSum(cb, items, i + 1, l)

PathQuantity(cb, n, l) ==
  IF n = l THEN 1
  ELSE IF IsRecipe(cb, n) THEN PathSum(cb, cb[n].requiredItems, 1, l)
  ELSE 0

\* The quantity the answer reports for l, 0 when l is not listed.
LeafQuantity(l) ==
  IF \E i \in DOMAIN response.ingredients : response.ingredients[i].name = l
  THEN response.ingredients[CHOOSE i \in DOMAIN response.ingredients :
                              response.ingredients[i].name = l].quantity
  ELSE 0

LeafNames == {response.ingredients[i].name : i \in DOMAIN response.ingredients}

Summarized == Answered("summary") /\ response.status = 200

\* The recipes the expansion of root goes through, root included.
Expanded(cb, root) == {m \in {root} \cup Descendants(cb, root) : IsRecipe(cb, m)}

Dangling(cb, root) ==
  \E m \in Expanded(cb, root) : \E n \in Requires(cb, m) : n \notin DOMAIN cb

\* C2: in a successful summary every ingredient is reported with the sum
\* over the requirement paths from the root of the product of the quantities
\* along the path, also when a sub-recipe is shared by paths of different
\* depths.
C2_PathSums ==
  Summarized =>
    \A l \in DOMAIN before :
      IsIngredient(before, l) => LeafQuantity(l) = PathQuantity(before, request.name, l)

\* The root requires two recipes, each of which requires one and the same
\* ingredient and nothing else.
Diamond(cb, r) ==
  /\ IsRecipe(cb, r)
  /\ Len(cb[r].requiredItems) = 2
  /\ LET a == cb[r].requiredItems[1].name
         b == cb[r].requiredItems[2].name
     IN /\ IsRecipe(cb, a) /\ IsRecipe(cb, b)
        /\ Len(cb[a].requiredItems) = 1 /\ Len(cb[b].requiredItems) = 1
        /\ cb[a].requiredItems[1].name = cb[b].requiredItems[1].name
        /\ IsIngredient(cb, cb[a].requiredItems[1].name)

\* C6: for the two-level diamond R -> A (a), B (b), A -> L (x), B -> L (y),
\* the summary of R succeeds and reports L, and only L, with a*x + b*y, in
\* whichever order R lists A and B.
C6_Diamond ==
  (Answered("summary") /\ Diamond(before, request.name)) =>
    LET r == before[request.name].requiredItems
        a == before[r[1].name].requiredItems[1]
        b == before[r[2].name].requiredItems[1]
    IN /\ response.status = 200
       /\ response.ingredients =
            <<[name |-> a.name,
               quantity |-> r[1].quantity * a.quantity + r[2].quantity * b.quantity]>>

\* The diamond with a = 2, x = 1, b = 1, y = 2 has been summarized, the
\* recipe of the higher rank listed second.
C6_Witness ==
  /\ Answered("summary")
  /\ Diamond(before, request.name)
  /\ LET r == before[request.name].requiredItems
     IN /\ Rank(r[1].name) < Rank(r[2].name)
        /\ r[1].quantity = 2 /\ before[r[1].name].requiredItems[1].quantity = 1
        /\ r[2].quantity = 1 /\ before[r[2].name].requiredItems[1].quantity = 2
  /\ LeafQuantity(before[before[request.name].requiredItems[1].name].requiredItems[1].name) = 4

\* The root requires one ingredient and nothing else.
SingleLeaf(cb, r) ==
  /\ IsRecipe(cb, r)
  /\ Len(cb[r].requiredItems) = 1
  /\ IsIngredient(cb, cb[r].requiredItems[1].name)

\* C7: the summary of a recipe that requires only an ingredient of cost c,
\* with quantity q, succeeds with cook time q * c and the one line
\* {ingredient: q}.
C7_SingleLeaf ==
  (Answered("summary") /\ SingleLeaf(before, request.name)) =>
    LET item == before[request.name].requiredItems[1]
    IN /\ response.status = 200
       /\ response.cookTime = item.quantity * before[item.name].cookTime
       /\ response.ingredients = <<[name |-> item.name, quantity |-> item.quantity]>>

\* Such a recipe with q = 2 over an ingredient of cost 1 has been summarized.
C7_Witness ==
  /\ Answered("summary")
  /\ SingleLeaf(before, request.name)
  /\ before[request.name].requiredItems[1].quantity = 2
  /\ before[before[request.name].requiredItems[1].name].cookTime = 1
  /\ response.cookTime = 2

\* C8: the summary of a recipe fails with DanglingReference when the root
\* or a recipe reachable from it requires a name the cookbook does not
\* hold, and succeeds otherwise.
C8_DanglingIff ==
  (Answered("summary") /\ IsRecipe(before, request.name)) =>
    IF Dangling(before, request.name)
    THEN response.status = 400 /\ response.error = "DanglingReference"
    ELSE response.status = 200 /\ response.error = ""

\* The absent name is required by a recipe below the root, whose own
\* requirements are all stored.
C8_Witness ==
  /\ Answered("summary")
  /\ IsRecipe(before, request.name)
  /\ Requires(before, request.name) \subseteq DOMAIN before
  /\ response.error = "DanglingReference"

\* C9: the summary of an absent name fails with NotFound, that of an
\* ingredient with NotARecipe, and in both cases the worklist loop runs no
\* iteration.
C9_Guards ==
  Answered("summary") =>
    /\ request.name \notin DOMAIN before =>
         response.status = 400 /\ response.error = "NotFound" /\ response.steps = 0
    /\ IsIngredient(before, request.name) =>
         response.status = 400 /\ response.error = "NotARecipe" /\ response.steps = 0

\* The summary of a stored ingredient has been asked for, in a cookbook that
\* lacks another name.
C9_Witness ==
  /\ Answered("summary")
  /\ IsIngredient(before, request.name)
  /\ response.error = "NotARecipe"
  /\ DOMAIN before # CoreNames

\* C10: a successful summary lists exactly the ingredients reachable from
\* the root, each once and with a positive quantity; the root and the
\* recipes in between are not listed.
C10_LeafKeys ==
  Summarized =>
    /\ LeafNames = {l \in Descendants(before, request.name) : IsIngredient(before, l)}
    /\ \A i, j \in DOMAIN response.ingredients :
         /\ response.ingredients[i].quantity > 0
         /\ i # j => response.ingredients[i].name # response.ingredients[j].name

\* A summary went through a recipe below the root and lists two ingredients.
C10_Witness ==
  /\ Summarized
  /\ \E m \in Descendants(before, request.name) : IsRecipe(before, m)
  /\ Cardinality(LeafNames) = 2

\* C11: every call of isReachable made by POST /entry and every GET /summary
\* ends: no request is left without an answer because a worklist was still
\* not empty after MaxSteps iterations.
C11_Terminates ==
  ~Idle => response.status \in {200, 400} /\ response.error # "NoResponse"

\* A summary ran its worklist loop four times or more: a name reached by two
\* paths was popped twice, there being no visited set.
C11_Witness ==
  /\ Summarized
  /\ response.steps >= 4
  /\ \E m \in Descendants(before, request.name) : IsRecipe(before, m)

\* C12: an entry once stored stays as it is: a step changes the cookbook
\* only by a successful POST /entry that adds the one name it was asked to
\* add, and GET /summary changes nothing.
C12_Immutable ==
  [][/\ \A n \in DOMAIN cookbook : n \in DOMAIN cookbook' /\ cookbook'[n] = cookbook[n]
     /\ cookbook' # cookbook =>
          /\ request'.op = "entry"
          /\ response'.status = 200
          /\ request'.name \notin DOMAIN cookbook
          /\ DOMAIN cookbook' = DOMAIN cookbook \cup {request'.name}
     /\ request'.op = "summary" => cookbook' = cookbook]_vars

\* A recipe was added to a cookbook that already held a recipe and an
\* ingredient, and both are still there.
C12_Witness ==
  /\ Answered("entry")
  /\ response.status = 200
  /\ request.type = "recipe"
  /\ \E a, b \in DOMAIN before :
       /\ IsRecipe(before, a) /\ IsIngredient(before, b)
       /\ cookbook[a] = before[a] /\ cookbook[b] = before[b]

ListsItself ==
  \E i \in DOMAIN request.requiredItems : request.requiredItems[i].name = request.name

\* C13: a recipe that lists its own name, at whatever position, is refused
\* and not stored, and no stored recipe requires its own name.
C13_NoSelfLoop ==
  /\ \A n \in DOMAIN cookbook : n \notin Requires(cookbook, n)
  /\ (Answered("entry") /\ request.type = "recipe" /\ ListsItself) =>
       response.status = 400 /\ cookbook = before

\* A new recipe whose first requirement passed every check was refused for
\* listing itself second.
C13_Witness ==
  /\ Answered("entry")
  /\ request.type = "recipe"
  /\ request.name \notin DOMAIN before
  /\ Len(request.requiredItems) = 2
  /\ request.requiredItems[1].name # request.name
  /\ request.requiredItems[1].quantity > 0
  /\ request.requiredItems[2].name = request.name
  /\ response.error = "SelfReference"
  /\ request.name \notin DOMAIN cookbook

RECURSIVE LinesCost(_, _, _)
LinesCost(cb, lines, i) ==
  IF i > Len(lines) THEN 0
  ELSE lines[i].quantity * cb[lines[i].name].cookTime + LinesCost(cb, lines, i + 1)

\* C15: in a successful summary the cook time is the sum, over the listed
\* ingredients, of the reported quantity times the ingredient's unit cost.
C15_CostOfLines ==
  Summarized =>
    /\ \A i \in DOMAIN response.ingredients :
         IsIngredient(before, response.ingredients[i].name)
    /\ response.cookTime = LinesCost(before, response.ingredients, 1)

\* Two ingredients are listed, one of cost 1 with a quantity of two or more
\* and one of cost 0.
C15_Witness ==
  /\ Summarized
  /\ \E i, j \in DOMAIN response.ingredients :
       /\ response.ingredients[i].quantity >= 2
       /\ before[response.ingredients[i].name].cookTime = 1
       /\ before[response.ingredients[j].name].cookTime = 0
  /\ response.cookTime >= 2

\* The quantity of the last item of the list that names n.
LastQuantity(items, n) ==
  LET last == CHOOSE i \in DOMAIN items :
                /\ items[i].name = n
                /\ \A j \in DOMAIN items : items[j].name = n => j <= i
  IN items[last].quantity

StoredRecipe == Answered("entry") /\ request.type = "recipe" /\ response.status = 200

\* C16: a stored recipe holds each required name of the request exactly
\* once, with the quantity of the name's last occurrence in the request.
C16_LastWriteWins ==
  StoredRecipe =>
    LET stored == cookbook[request.name].requiredItems
    IN /\ \A i, j \in DOMAIN stored : i # j => stored[i].name # stored[j].name
       /\ {stored[i].name : i \in DOMAIN stored}
            = {request.requiredItems[i].name : i \in DOMAIN request.requiredItems}
       /\ \A i \in DOMAIN stored :
            stored[i].quantity = LastQuantity(request.requiredItems, stored[i].name)

\* A request naming the same required entry twice, first with quantity 1 and
\* then with quantity 2, was stored as one requirement of quantity 2.
C16_Witness ==
  /\ StoredRecipe
  /\ Len(request.requiredItems) = 2
  /\ request.requiredItems[1].name = request.requiredItems[2].name
  /\ request.requiredItems[1].quantity = 1
  /\ request.requiredItems[2].quantity = 2
  /\ cookbook[request.name].requiredItems =
       <<[name |-> request.requiredItems[1].name, quantity |-> 2]>>

\* C17: for a stored src and any name dest, isReachable(src, dest) ends and
\* is true exactly when a path of at least one requirement edge leads from
\* src to dest; for an ingredient src it is false.  Both every pair over the
\* cookbook at rest and the calls POST /entry made are compared with the
\* closure of the edge relation, which knows no order of the requirements.
C17_ReachIff ==
  /\ Idle =>
       \A src \in DOMAIN cookbook, dest \in Names :
         /\ isReachable(cookbook, src, dest)
              = [done |-> TRUE, value |-> dest \in Descendants(cookbook, src)]
         /\ IsIngredient(cookbook, src) => ~isReachable(cookbook, src, dest).value
  /\ (Answered("entry") /\ request.type = "recipe") =>
       \A i \in DOMAIN request.requiredItems :
         request.requiredItems[i].name \in DOMAIN before =>
           isReachable(before, request.requiredItems[i].name, request.name)
             = [done |-> TRUE,
                value |-> request.name
                            \in Descendants(before, request.requiredItems[i].name)]

\* POST /entry called isReachable on a stored recipe that reaches the new
\* name only through the second of its two requirements, and on a stored
\* ingredient.
C17_Witness ==
  /\ NewRecipe
  /\ response.error = "CycleDetected"
  /\ \E i \in DOMAIN request.requiredItems :
       LET src == request.requiredItems[i].name
       IN /\ IsRecipe(before, src)
          /\ Len(before[src].requiredItems) = 2
          /\ before[src].requiredItems[1].name # request.name
          /\ isReachable(before, src, request.name).value
  /\ \E j \in DOMAIN request.requiredItems :
       /\ IsIngredient(before, request.requiredItems[j].name)
       /\ ~isReachable(before, request.requiredItems[j].name, request.name).value

\* C18: whenever the summary takes a recipe off its worklist the ingredients
\* counter holds an entry for it, so the fallback multiplier 1 is used for
\* no recipe.
C18_NoFallback ==
  Answered("summary") => response.fallbacks = 0

\* The orders in which a list of requirements can be written.
Orders(items) ==
  {[i \in DOMAIN items |-> items[p[i]]] :
     p \in {q \in [DOMAIN items -> DOMAIN items] :
              \A i, j \in DOMAIN items : i # j => q[i] # q[j]}}

EntryOrders(cb, n) ==
  IF IsRecipe(cb, n)
  THEN {[cb[n] EXCEPT !.requiredItems = l] : l \in Orders(cb[n].requiredItems)}
  ELSE {cb[n]}

\* The cookbooks that hold the entries of cb with the same required names and
\* quantities, the requirements of the recipes among S listed in any order.
RECURSIVE Reordered(_, _)
Reordered(cb, S) ==
  IF S = {} THEN {cb}
  ELSE LET n == CHOOSE x \in S : TRUE
       IN {CookbookSet(c, n, e) : c \in Reordered(cb, S \ {n}), e \in EntryOrders(cb, n)}

LineSet(lines) == {lines[i] : i \in DOMAIN lines}

\* C19: the summary depends only on the requirement mappings: a cookbook
\* that differs from the one summarized only in the order in which recipes
\* list their requirements gives the same cook time and the same quantities.
C19_OrderIndependent ==
  Summarized =>
    \A cb \in Reordered(before, DOMAIN before) :
      LET o == SummaryOutcome(cb, request.name)
      IN /\ o.status = 200
         /\ o.cookTime = response.cookTime
         /\ LineSet(o.ingredients) = LineSet(response.ingredients)

====
